---- MODULE Spec2Model ----
(***************************************************************************)
(* forc-telemetry: process supervision, daemonisation, the Collector's     *)
(* singleton lock, the touchfile rate limiter and the spool drain.         *)
(*                                                                         *)
(* The concurrency unit is the OS process.  Every process carries its      *)
(* continuation k, the list of the steps it still has to run; the first    *)
(* element is its program counter.  A process whose continuation is empty  *)
(* runs code outside this crate (it is the host program).                  *)
(***************************************************************************)
EXTENDS Integers, Sequences, FiniteSets, TLC

\* ------------------------------------------------------------- bounds
MaxPid == 8
MaxInode == 4
MaxSleeps == 2
NumCollectors == 2
MaxDays == 2

\* ---------------------------------------------------------- constants
LOG_INTERVAL == 86400

\* pid 1 is init, which adopts and reaps orphans; the host program and the
\* forc-telemetry binary it launches come next; spool writers are processes
\* outside the table
InitPid == 1
HostPid == InitPid + 1
BinPid == HostPid + 1
WriterPid == MaxPid + 1

Pids == 1..MaxPid
Inodes == 1..MaxInode

\* File names, as the sequences of characters the code compares
METRICS_PREFIX == <<"m", "e", "t", "r", "i", "c", "s">>
MetricsName == METRICS_PREFIX \o <<"1">>
TOUCH_FILENAME ==
    <<"s", "y", "s", "t", "e", "m", "_", "i", "n", "f", "o", ".", "t", "o", "u", "c", "h">>
COLLECTOR_LOG == <<"c", "o", "l", "l", "e", "c", "t", "o", "r", ".", "l", "o", "g">>
SUPERVISOR_LOG == <<"s", "u", "p", "e", "r", "v", "i", "s", "o", "r", ".", "l", "o", "g">>

Names == {MetricsName, TOUCH_FILENAME, COLLECTOR_LOG, SUPERVISOR_LOG}
Dirs == {"root", "log", "tmp"}
Paths == Dirs \X Names

\* str::starts_with
StartsWith(s, prefix) ==
    /\ Len(s) >= Len(prefix)
    /\ SubSeq(s, 1, Len(prefix)) = prefix

\* ModuleConfig::log_filename of the two modules
LogFilename(module) ==
    IF module = "Collector" THEN COLLECTOR_LOG ELSE SUPERVISOR_LOG

\* Exit statuses and signals a monitored program may end with
Statuses == {0, 7}
Signals == {9}

\* The clock values the model draws from: around every multiple of the interval
Times ==
    {t \in {d * LOG_INTERVAL + j : d \in 0..MaxDays, j \in {0 - 1, 0, 1}} : t >= 0}

VARIABLES
    optOut,      \* FUEL_NO_TELEMETRY is set
    entry,       \* the entrypoint the host invoked
    proc,        \* the process table
    nextPid,     \* the next unused pid
    dirExists,   \* which of the log and tmp directories exist
    tmpDir,      \* the directory Config::tmp_dir names
    files,       \* path -> inode (0: no such file)
    flock,       \* inode -> pid holding the exclusive flock (0: unlocked)
    mtime,       \* inode -> modification time in seconds
    clock,       \* CLOCK_REALTIME in seconds
    col,         \* per process: the Collector's and SystemInfo's fields
    hist         \* history of the run, read by the properties only

vars ==
    <<optOut, entry, proc, nextPid, dirExists, tmpDir, files, flock, mtime,
      clock, col, hist>>

envVars == <<optOut, entry, tmpDir>>
fsVars == <<dirExists, files, flock, mtime>>

\* ------------------------------------------------------ continuations
\* A detach with one fork only (mutant)
DetachSingleFork == <<"kill_parent", "setsid">>

\* detach_process: the double fork around setsid
DetachProcess == <<"kill_parent", "setsid", "kill_parent">>

\* Collector::start after the opt-out check
StartBody ==
    <<"flush">> \o DetachProcess
        \o <<"setup_stdio", "chdir", "close_fds", "umask", "loop">>

\* Supervisor::supervise_child_process after the opt-out check
SupChildBody ==
    <<"flush", "sc_fork", "setup_stdio", "chdir", "close_fds", "umask",
      "waitpid", "getrusage", "exit0">>

\* Supervisor::supervise_parent_process after the opt-out check
SupParentBody ==
    <<"getppid", "flush">> \o DetachProcess
        \o <<"setup_stdio", "chdir", "close_fds", "umask", "sysinfo_new", "poll">>

\* lib.rs supervise_child_process
LibSuperviseChild ==
    <<"default_collector", "start", "default_supervisor", "sup_child">>

\* lib.rs supervise_parent_process: the two sides of follow_parent
LibParentSupervisorSide == <<"default_supervisor", "sup_parent", "exit1">>
LibParentCollectorSide == <<"default_collector", "start", "exit1">>

\* main.rs main followed by lib.rs supervise_parent_process
MainPlan == <<"main", "lp_fork">>

Entries == {"lib_child", "lib_parent", "sup_child", "sup_parent", "start"}

EntryPlan(e) ==
    CASE e = "lib_child" -> LibSuperviseChild
      [] e = "lib_parent" -> MainPlan
      [] e = "sup_child" -> <<"default_supervisor", "sup_child">>
      [] e = "sup_parent" -> <<"default_supervisor", "sup_parent">>
      [] OTHER -> <<"default_collector", "start">>

\* The end of a function body is marked "ret"; skipping the marks is the return
RECURSIVE Norm(_)
Norm(k) == IF k # <<>> /\ Head(k) = "ret" THEN Norm(Tail(k)) ELSE k

\* `return` in the middle of a body: drop the rest of the body
RECURSIVE AfterReturn(_)
AfterReturn(k) ==
    IF k = <<>> THEN <<>>
    ELSE IF Head(k) = "ret" THEN Norm(Tail(k))
    ELSE AfterReturn(Tail(k))

Advance(k) == Norm(Tail(k))

\* ------------------------------------------------------ process table
NoTerm == [kind |-> "none", val |-> 0]
ExitTerm(code) == [kind |-> "exit", val |-> code]
SignalTerm(sig) == [kind |-> "signal", val |-> sig]
PanicTerm == [kind |-> "panic", val |-> 0]

NoProc ==
    [st |-> "unused", k |-> <<>>, ppid |-> 0, origin |-> 0, pgid |-> 0, sid |-> 0,
     term |-> NoTerm, module |-> "none", tracked |-> 0, outcome |-> <<>>,
     wstatus |-> NoTerm, rusage |-> FALSE, cwd |-> "start", view |-> {}, sleeps |-> 0,
     returned |-> FALSE, tr |-> <<>>]

\* A process running the host program
HostProc(parent, self) ==
    [NoProc EXCEPT !.st = "live", !.ppid = parent, !.pgid = self, !.sid = parent]

\* Collector and SystemInfo fields, and the locals of the running method:
\* logfile (enforce_singleton), listing, entry, file, locked (send_metrics_files)
NoCol ==
    [logfile_lock |-> 0, last_logged |-> <<>>, touch_filehandle |-> 0,
     logfile |-> 0, listing |-> {}, entry |-> <<>>, file |-> 0]

Pc(p) == IF proc[p].st = "live" /\ proc[p].k # <<>> THEN Head(proc[p].k) ELSE "none"
Alive(p) == proc[p].st = "live"

\* The record of process p after a step that leaves it the continuation k
Step(pr, label, k) ==
    [pr EXCEPT !.k = k, !.tr = Append(@, label),
               !.returned = (@ \/ k = <<>>)]

\* The table after process p ended with `term`: its children go to init
Ended(table, p, label, term) ==
    [q \in Pids |->
        IF q = p
        THEN [table[q] EXCEPT !.st = "dead", !.k = <<>>, !.term = term,
                              !.tr = Append(@, label)]
        ELSE IF table[q].st = "live" /\ table[q].ppid = p
        THEN [table[q] EXCEPT !.ppid = InitPid]
        ELSE table[q]]

\* fork(2): the child is a copy of its parent; `origin` keeps the pid that
\* forked it (ppid changes when that process ends)
Forked(table, p, c, label, kParent, kChild) ==
    [table EXCEPT
        ![p] = Step(table[p], label, kParent),
        ![c] = [Step(table[p], label, kChild) EXCEPT !.ppid = p, !.origin = p]]

\* (mutant) a lock outlives the descriptor it was taken on
LocksKept(p) == flock

\* Closing every descriptor of a process that ends drops its flocks
Unlocked(p) == [i \in Inodes |-> IF flock[i] = p THEN 0 ELSE flock[i]]


\* ------------------------------------------------------------ files
\* The inodes in use: linked at a path, locked, or open in a live process
UsedInodes(f, l, c, pr) ==
    {f[path] : path \in Paths}
        \cup {i \in Inodes : l[i] # 0}
        \cup UNION {{c[p].logfile, c[p].logfile_lock, c[p].file, c[p].touch_filehandle} :
                      p \in {q \in Pids : pr[q].st = "live"}}

FreeInodes == Inodes \ UsedInodes(files, flock, col, proc)
NewInode == CHOOSE i \in FreeInodes : \A j \in FreeInodes : i <= j

\* The directory is there: the root always is
DirExists(d) == IF d = "root" THEN TRUE ELSE dirExists[d]

\* OpenOptions::new().create(true).append(true).open(path) can succeed
CanOpenCreate(path) ==
    /\ DirExists(path[1])
    /\ IF files[path] # 0 THEN TRUE ELSE FreeInodes # {}

Created(path) == files[path] = 0
OpenedInode(path) == IF Created(path) THEN NewInode ELSE files[path]
\* (mutant) the file is opened without being linked at its path when missing
FilesAfterOpenNoCreate(path) == files

FilesAfterOpen(path) == [files EXCEPT ![path] = OpenedInode(path)]
MtimeAfterOpen(path) ==
    IF Created(path) THEN [mtime EXCEPT ![NewInode] = clock] ELSE mtime
WritesAfterOpen(path) ==
    IF Created(path) THEN hist.writes \cup {"create"} ELSE hist.writes

\* An inode that is unlinked, unlocked and closed is gone: the step ends with
\* the times mt and the history h, less what was kept about freed inodes
Settle(mt, h) ==
    LET used == UsedInodes(files', flock', col', proc') IN
    /\ mtime' = [i \in Inodes |-> IF i \in used THEN mt[i] ELSE 0]
    /\ hist' = [h EXCEPT !.reads = [i \in Inodes |-> IF i \in used THEN @[i] ELSE {}]]

\* ------------------------------------------------- entrypoints (lib.rs)
\* main: the two misuse guards and the parent path lookup
Main(p) ==
    /\ Pc(p) = "main"
    /\ \E r \in {"ok", "args", "nopath", "shell"} :
          proc' = IF r = "ok"
                  THEN [proc EXCEPT ![p] = Step(@, "main", Advance(@.k))]
                  ELSE Ended(proc, p, "main", ExitTerm(1))
    /\ UNCHANGED <<envVars, fsVars, nextPid, clock, col, hist>>

\* Config::default: resolve the directories and create them
ConfigDefault(p) ==
    /\ Pc(p) \in {"default_collector", "default_supervisor"}
    /\ \E r \in {"ok", "fail_log", "fail_tmp"} :
          LET made == (IF r # "fail_log" THEN {"log"} ELSE {})
                          \cup (IF r = "ok" THEN {"tmp"} ELSE {})
              new == {d \in made : ~dirExists[d]}
              module == IF Pc(p) = "default_collector" THEN "Collector"
                        ELSE "Supervisor"
          IN /\ dirExists' = [d \in DOMAIN dirExists |-> dirExists[d] \/ d \in made]
             /\ hist' = [hist EXCEPT !.writes =
                             @ \cup (IF new # {} THEN {"mkdir"} ELSE {})]
             /\ proc' = IF r = "ok"
                        THEN [proc EXCEPT ![p] =
                                 [Step(@, Pc(p), Advance(@.k)) EXCEPT !.module = module]]
                        ELSE Ended(proc, p, Pc(p), PanicTerm)
    /\ UNCHANGED <<envVars, files, flock, mtime, nextPid, clock, col>>

\* The opt-out check that opens Collector::start and both Supervisor methods
OptOutBody(label) ==
    CASE label = "start" -> StartBody
      [] label = "sup_child" -> SupChildBody
      [] OTHER -> SupParentBody

OptOutCheck(p) ==
    /\ Pc(p) \in {"start", "sup_child", "sup_parent"}
    /\ proc' = [proc EXCEPT ![p] =
                   Step(@, Pc(p),
                        IF optOut THEN Advance(@.k)
                        ELSE OptOutBody(Pc(p)) \o <<"ret">> \o Tail(@.k))]
    /\ UNCHANGED <<envVars, fsVars, nextPid, clock, col, hist>>

\* flush_stdio
FlushStdio(p) ==
    /\ Pc(p) = "flush"
    /\ \E ok \in BOOLEAN :
          proc' = IF ok THEN [proc EXCEPT ![p] = Step(@, "flush", Advance(@.k))]
                  ELSE Ended(proc, p, "flush", PanicTerm)
    /\ UNCHANGED <<envVars, fsVars, nextPid, clock, col, hist>>

\* fork(2) can succeed: a pid is free
CanFork == nextPid <= MaxPid

\* kill_parent: fork, the parent exits 0, the child goes on
KillParent(p) ==
    /\ Pc(p) = "kill_parent"
    /\ \E ok \in {b \in BOOLEAN : b => CanFork} :
          IF ok
          THEN /\ proc' = Ended(Forked(proc, p, nextPid, "kill_parent",
                                       proc[p].k, Advance(proc[p].k)),
                                p, "exit0", ExitTerm(0))
               /\ nextPid' = nextPid + 1
          ELSE /\ proc' = Ended(proc, p, "kill_parent", PanicTerm)
               /\ UNCHANGED nextPid
    /\ UNCHANGED <<envVars, fsVars, clock, col, hist>>

\* setsid(2) fails exactly for a process group leader
Setsid(p) ==
    /\ Pc(p) = "setsid"
    /\ proc' = IF proc[p].pgid # p
               THEN [proc EXCEPT ![p] =
                        [Step(@, "setsid", Advance(@.k)) EXCEPT !.sid = p, !.pgid = p]]
               ELSE Ended(proc, p, "setsid", PanicTerm)
    /\ UNCHANGED <<envVars, fsVars, nextPid, clock, col, hist>>

\* follow_parent in lib.rs supervise_parent_process, before any opt-out check:
\* the fork-parent runs the Supervisor, the fork-child the Collector
LibFollowParent(p) ==
    /\ Pc(p) = "lp_fork"
    /\ \E ok \in {b \in BOOLEAN : b => CanFork} :
          IF ok
          THEN /\ proc' = Forked(proc, p, nextPid, "lp_fork",
                                 LibParentSupervisorSide, LibParentCollectorSide)
               /\ nextPid' = nextPid + 1
          ELSE /\ proc' = Ended(proc, p, "lp_fork", PanicTerm)
               /\ UNCHANGED nextPid
    /\ UNCHANGED <<envVars, fsVars, clock, col, hist>>

\* follow_parent in Supervisor::supervise_child_process: the fork-child returns
\* to the caller, the fork-parent goes on as the Supervisor of that child
SupFollowParent(p) ==
    /\ Pc(p) = "sc_fork"
    /\ \E ok \in {b \in BOOLEAN : b => CanFork} :
          IF ok
          THEN /\ proc' = [Forked(proc, p, nextPid, "sc_fork",
                                  Advance(proc[p].k), AfterReturn(proc[p].k))
                             EXCEPT ![p].tracked = nextPid]
               /\ nextPid' = nextPid + 1
          ELSE /\ proc' = Ended(proc, p, "sc_fork", PanicTerm)
               /\ UNCHANGED nextPid
    /\ UNCHANGED <<envVars, fsVars, clock, col, hist>>

\* setup_stdio: stderr to the module's log file, stdin and stdout to /dev/null
SetupStdio(p) ==
    /\ Pc(p) = "setup_stdio"
    /\ LET path == <<"log", LogFilename(proc[p].module)>>
       IN \E r \in {x \in {"ok", "fail_open", "fail_dup2"} :
                        x # "fail_open" => CanOpenCreate(path)} :
             /\ proc' = IF r = "ok"
                        THEN [proc EXCEPT ![p] = Step(@, "setup_stdio", Advance(@.k))]
                        ELSE Ended(proc, p, "setup_stdio", PanicTerm)
             /\ IF r = "fail_open"
                THEN UNCHANGED <<files, mtime, hist>>
                ELSE /\ files' = FilesAfterOpen(path)
                     /\ mtime' = MtimeAfterOpen(path)
                     /\ hist' = [hist EXCEPT !.writes = WritesAfterOpen(path)]
    /\ UNCHANGED <<envVars, dirExists, flock, nextPid, clock, col>>

\* setup_filesystem: chdir("/")
Chdir(p) ==
    /\ Pc(p) = "chdir"
    /\ \E ok \in BOOLEAN :
          proc' = IF ok
                  THEN [proc EXCEPT ![p] =
                           [Step(@, "chdir", Advance(@.k)) EXCEPT !.cwd = "root"]]
                  ELSE Ended(proc, p, "chdir", PanicTerm)
    /\ UNCHANGED <<envVars, fsVars, nextPid, clock, col, hist>>

\* setup_filesystem: sysconf(OPEN_MAX), then close(fd) for every fd from 3 up,
\* whose result is dropped
CloseFds(p) ==
    /\ Pc(p) = "close_fds"
    /\ \E r \in {"ok", "close_failed", "fail_sysconf"} :
          proc' = IF r = "fail_sysconf"
                  THEN Ended(proc, p, "close_fds", PanicTerm)
                  ELSE [proc EXCEPT ![p] =
                           Step(@, IF r = "ok" THEN "close_fds" ELSE "close_failed",
                                Advance(@.k))]
    /\ UNCHANGED <<envVars, fsVars, nextPid, clock, col, hist>>

\* setup_filesystem: umask(0)
Umask(p) ==
    /\ Pc(p) = "umask"
    /\ proc' = [proc EXCEPT ![p] = Step(@, "umask", Advance(@.k))]
    /\ UNCHANGED <<envVars, fsVars, nextPid, clock, col, hist>>

\* ------------------------------------------- Supervisor (supervisor.rs)
\* What waitpid(child, WEXITED) can hand back: the child's end once it has
\* ended, or at any time an error or a status that is neither
WaitResults(child) ==
    {[kind |-> "other", val |-> 0]}
        \cup (IF proc[child].st = "dead" THEN {proc[child].term} ELSE {})

\* (mutant) a signal is reported the way a shell does, as 128 + signal
StatusCodeShell(r) ==
    CASE r.kind = "exit" -> <<r.val>>
      [] r.kind = "signal" -> <<128 + r.val>>
      [] OTHER -> <<>>

\* The match on the wait result: the value kept as _status_code, if any
StatusCode(r) ==
    CASE r.kind = "exit" -> <<r.val>>
      [] r.kind = "signal" -> <<r.val>>
      [] OTHER -> <<>>

\* Block until the child process exits
Waitpid(p) ==
    /\ Pc(p) = "waitpid"
    /\ \E r \in WaitResults(proc[p].tracked) :
          proc' = IF StatusCode(r) # <<>>
                  THEN [proc EXCEPT ![p] =
                           [Step(@, "waitpid", Advance(@.k))
                               EXCEPT !.outcome = StatusCode(r), !.wstatus = r]]
                  ELSE [Ended(proc, p, "waitpid", ExitTerm(1))
                           EXCEPT ![p].wstatus = r]
    /\ UNCHANGED <<envVars, fsVars, nextPid, clock, col, hist>>

\* getrusage(RUSAGE_CHILDREN)
Getrusage(p) ==
    /\ Pc(p) = "getrusage"
    /\ \E ok \in BOOLEAN :
          proc' = IF ok
                  THEN [proc EXCEPT ![p] =
                           [Step(@, "getrusage", Advance(@.k)) EXCEPT !.rusage = TRUE]]
                  ELSE Ended(proc, p, "getrusage", PanicTerm)
    /\ UNCHANGED <<envVars, fsVars, nextPid, clock, col, hist>>

\* exit(0) and exit(1)
ExitCall(p) ==
    /\ Pc(p) \in {"exit0", "exit1"}
    /\ proc' = Ended(proc, p, Pc(p), ExitTerm(IF Pc(p) = "exit0" THEN 0 ELSE 1))
    /\ UNCHANGED <<envVars, fsVars, nextPid, clock, col, hist>>

\* getppid().as_raw().try_into(): the parent pid as a u32, or exit(1)
Getppid(p) ==
    /\ Pc(p) = "getppid"
    /\ proc' = IF proc[p].ppid >= 0
               THEN [proc EXCEPT ![p] =
                        [Step(@, "getppid", Advance(@.k)) EXCEPT !.tracked = proc[p].ppid]]
               ELSE Ended(proc, p, "getppid", ExitTerm(1))
    /\ UNCHANGED <<envVars, fsVars, nextPid, clock, col, hist>>

\* (mutant) the sampler is built with every running process loaded
SysinfoEverything == {q \in Pids : proc[q].st = "live"}

\* System::new_with_specifics(RefreshKind::nothing()): no process is loaded
SysinfoNothing == {}

SysinfoNew(p) ==
    /\ Pc(p) = "sysinfo_new"
    /\ proc' = [proc EXCEPT ![p] =
                   [Step(@, "sysinfo_new", Advance(@.k)) EXCEPT !.view = SysinfoNothing]]
    /\ UNCHANGED <<envVars, fsVars, nextPid, clock, col, hist>>

\* System::process(pid): a lookup in the processes the sampler has loaded
SysinfoProcess(view, pid) == pid \in view

\* One turn of the poll loop: the view is not refreshed; while the parent is
\* found sleep and go round again, otherwise exit(0)
Poll(p) ==
    /\ Pc(p) = "poll"
    /\ IF SysinfoProcess(proc[p].view, proc[p].tracked)
       THEN /\ proc[p].sleeps < MaxSleeps
            /\ proc' = [proc EXCEPT ![p] =
                           [Step(@, "sleep", @.k) EXCEPT !.sleeps = @ + 1]]
            /\ hist' = [hist EXCEPT !.lateSleeps =
                            IF Alive(proc[p].tracked) THEN @ ELSE @ + 1]
       ELSE /\ proc' = Ended(proc, p, "exit0", ExitTerm(0))
            /\ hist' = [hist EXCEPT !.polledGone =
                            @ \/ ~Alive(proc[p].tracked)]
    /\ UNCHANGED <<envVars, fsVars, nextPid, clock, col>>

\* The environment: a process running the host program ends, by exit or signal
HostTerminate(p) ==
    /\ Alive(p)
    /\ p # InitPid
    /\ proc[p].k = <<>>
    /\ \E t \in {ExitTerm(n) : n \in Statuses} \cup {SignalTerm(s) : s \in Signals} :
          proc' = Ended(proc, p, "host_end", t)
    /\ UNCHANGED <<envVars, fsVars, nextPid, clock, col, hist>>

\* --------------------------------------------- specification: entrypoints
\* The history: writes, the kinds of filesystem change made on the way from an
\* entrypoint to its loop; lateSleeps, the sleeps of a poll loop begun after
\* the tracked process ended; polledGone, a poll found the tracked process
\* ended; logRemoved, markerRemoved, clockBack, what the environment has done;
\* reads, per spool inode the processes that read its content; sampled,
\* whether the last tick sampled; lastSample and prevSample, the times of the
\* last sample and of the one before; restarted, the Collector was restarted
\* since the last sample; acrossRestart, it was between the last two samples;
\* markerBorn, the time at which a tick created the marker now in place
InitHist ==
    [writes |-> {}, lateSleeps |-> 0, polledGone |-> FALSE,
     logRemoved |-> FALSE, markerRemoved |-> FALSE, clockBack |-> FALSE,
     reads |-> [i \in Inodes |-> {}], sampled |-> FALSE, lastSample |-> <<>>,
     prevSample |-> <<>>, restarted |-> FALSE, acrossRestart |-> FALSE,
     markerBorn |-> <<>>]

InitFs ==
    /\ files = [path \in Paths |-> 0]
    /\ flock = [i \in Inodes |-> 0]
    /\ mtime = [i \in Inodes |-> 0]

\* A host program invokes one entrypoint; for the binary, the host has spawned
\* the forc-telemetry process, which is about to run main
InitEntry ==
    /\ optOut \in BOOLEAN
    /\ entry \in Entries
    /\ tmpDir = "tmp"
    /\ dirExists \in [{"log", "tmp"} -> BOOLEAN]
    /\ InitFs
    /\ clock = 0
    /\ col = [p \in Pids |-> NoCol]
    /\ hist = InitHist
    /\ nextPid = IF entry = "lib_parent" THEN BinPid + 1 ELSE BinPid
    /\ proc = [p \in Pids |->
                 CASE p = InitPid -> HostProc(0, InitPid)
                   [] p = HostPid ->
                        [HostProc(InitPid, HostPid) EXCEPT
                            !.k = IF entry = "lib_parent" THEN <<>> ELSE EntryPlan(entry)]
                   [] p = BinPid /\ entry = "lib_parent" ->
                        [HostProc(HostPid, HostPid) EXCEPT
                            !.k = EntryPlan(entry), !.sid = InitPid]
                   [] OTHER -> NoProc]

NextEntry ==
    \E p \in Pids :
        \/ Main(p)
        \/ ConfigDefault(p)
        \/ OptOutCheck(p)
        \/ FlushStdio(p)
        \/ KillParent(p)
        \/ Setsid(p)
        \/ LibFollowParent(p)
        \/ SupFollowParent(p)
        \/ SetupStdio(p)
        \/ Chdir(p)
        \/ CloseFds(p)
        \/ Umask(p)
        \/ Waitpid(p)
        \/ Getrusage(p)
        \/ ExitCall(p)
        \/ Getppid(p)
        \/ SysinfoNew(p)
        \/ Poll(p)
        \/ HostTerminate(p)

SpecEntry == InitEntry /\ [][NextEntry]_vars

\* -------------------------------------------------- Collector (collector.rs)
CollectorLogPath == <<"log", COLLECTOR_LOG>>
MarkerPath == <<tmpDir, TOUCH_FILENAME>>
SpoolPath == <<tmpDir, MetricsName>>

\* A bare file name is resolved against the working directory of the process
Resolve(p, name) == <<proc[p].cwd, name>>
FileAt(path) == IF path \in Paths THEN files[path] ELSE 0

\* A process at label `from` of the Collector's loop goes to label `to`
Goto(p, from, to) == [proc EXCEPT ![p].k = <<to>>]

\* A Collector in its loop ends: its memory is gone, its descriptors closed
DieAs(p, label, term) ==
    /\ proc' = Ended(proc, p, label, term)
    /\ flock' = Unlocked(p)
    /\ col' = [col EXCEPT ![p] = NoCol]

Die(p, term) == DieAs(p, term.kind, term)

\* (mutant) the lock is taken shared: it never meets contention
FlockSharedNonblock(i, p) == "ok"

\* Flock::lock(file, LockExclusiveNonblock) on inode i by process p
FlockExclusiveNonblock(i, p) ==
    IF flock[i] = 0 THEN "ok" ELSE "wouldblock"

\* enforce_singleton: self.logfile_lock = None drops the lock held so far
EnforceDiscard(p) ==
    /\ Pc(p) = "loop"
    /\ flock' = Unlocked(p)
    /\ col' = [col EXCEPT ![p].logfile_lock = 0]
    /\ proc' = Goto(p, "loop", "es_open")
    /\ UNCHANGED <<envVars, dirExists, files, nextPid, clock>>
    /\ Settle(mtime, hist)

\* enforce_singleton: open the log file, creating it if it is missing
EnforceOpen(p) ==
    /\ Pc(p) = "es_open"
    /\ IF DirExists(CollectorLogPath[1])
       THEN /\ CanOpenCreate(CollectorLogPath)
            /\ files' = FilesAfterOpen(CollectorLogPath)
            /\ col' = [col EXCEPT ![p].logfile = OpenedInode(CollectorLogPath)]
            /\ proc' = Goto(p, "es_open", "es_lock")
            /\ UNCHANGED flock
            /\ Settle(MtimeAfterOpen(CollectorLogPath), hist)
       ELSE /\ Die(p, PanicTerm)
            /\ UNCHANGED files
            /\ Settle(mtime, hist)
    /\ UNCHANGED <<envVars, dirExists, nextPid, clock>>

\* (mutant) every failure of the lock attempt is fatal
LockFailureCodeFatal(r) == 1

\* enforce_singleton: exit(0) when the lock is contended, exit(1) on any
\* other failure
LockFailureCode(r) == IF r = "wouldblock" THEN 0 ELSE 1

\* enforce_singleton: the non-blocking exclusive lock decides
EnforceLock(p) ==
    /\ Pc(p) = "es_lock"
    /\ \E r \in {FlockExclusiveNonblock(col[p].logfile, p), "error"} :
          IF r = "ok"
          THEN /\ flock' = [flock EXCEPT ![col[p].logfile] = p]
               /\ col' = [col EXCEPT ![p].logfile_lock = col[p].logfile,
                                      ![p].logfile = 0]
               /\ proc' = Goto(p, "es_lock", "collect")
          ELSE DieAs(p, r, ExitTerm(LockFailureCode(r)))
    /\ UNCHANGED <<envVars, dirExists, files, nextPid, clock>>
    /\ Settle(mtime, hist)

\* ---------------------------------------- SystemInfo (system_info.rs)
\* (mutant) the memory tier holds back every tick once a sample was taken
MemoryTierSkipsAlways(last_logged, now) == last_logged # <<>>

\* should_log, memory tier: too soon after the last sample of this process
MemoryTierSkips(last_logged, now) ==
    /\ last_logged # <<>>
    /\ now < last_logged[1] + LOG_INTERVAL

\* (mutant) the marker must be strictly older than the interval
DurableTierStrict(now, st_mtime) == now > st_mtime + LOG_INTERVAL

\* (mutant) the durable tier lets every tick through
DurableTierAlways(now, st_mtime) == TRUE

\* should_log, durable tier: the marker's mtime is at least an interval old
DurableTier(now, st_mtime) == now >= st_mtime + LOG_INTERVAL

\* touch_filehandle opens the marker in this call
TouchOpens(p) == col[p].touch_filehandle = 0

\* touch_filehandle: the cached handle, or the marker opened (and created)
TouchHandle(p) ==
    IF TouchOpens(p) THEN OpenedInode(MarkerPath) ELSE col[p].touch_filehandle

\* (mutant) a marker created by the tick reads as modified at the epoch
TouchMtimeEpoch(p) ==
    IF TouchOpens(p) /\ Created(MarkerPath) THEN 0 ELSE mtime[TouchHandle(p)]

\* fstat(touch_filehandle).st_mtime as should_log reads it
TouchMtime(p) ==
    IF TouchOpens(p) /\ Created(MarkerPath) THEN clock ELSE mtime[TouchHandle(p)]

\* (mutant) update_touchfile_timestamp sets the access time, not the mtime
AtimeUpdated(m, handle, now) == m

\* update_touchfile_timestamp: futimens(handle, UTIME_OMIT, now)
MtimeUpdated(m, handle, now) == [m EXCEPT ![handle] = now]

\* collect: one tick of the rate limiter
Collect(p) ==
    /\ Pc(p) = "collect"
    /\ LET now == clock IN
       IF MemoryTierSkips(col[p].last_logged, now)
       THEN /\ proc' = Goto(p, "collect", "drain")
            /\ UNCHANGED <<files, flock, col>>
            /\ Settle(mtime, [hist EXCEPT !.sampled = FALSE])
       ELSE IF TouchOpens(p) /\ ~DirExists(tmpDir)
       THEN /\ Die(p, PanicTerm)
            /\ UNCHANGED files
            /\ Settle(mtime, hist)
       ELSE LET log == DurableTier(now, TouchMtime(p))
                handle == TouchHandle(p)
                opened == IF TouchOpens(p) THEN MtimeAfterOpen(MarkerPath)
                          ELSE mtime
            IN /\ TouchOpens(p) => CanOpenCreate(MarkerPath)
               /\ files' = IF TouchOpens(p) THEN FilesAfterOpen(MarkerPath)
                           ELSE files
               /\ col' = [col EXCEPT
                             ![p].touch_filehandle = handle,
                             ![p].last_logged = IF log THEN <<now>> ELSE @]
               /\ proc' = Goto(p, "collect", "drain")
               /\ UNCHANGED flock
               /\ Settle(IF log THEN MtimeUpdated(opened, handle, now)
                         ELSE opened,
                         [hist EXCEPT
                             !.sampled = log,
                             !.lastSample = IF log THEN <<now>> ELSE @,
                             !.prevSample = IF log THEN hist.lastSample ELSE @,
                             !.acrossRestart = IF log THEN hist.restarted ELSE @,
                             !.restarted = IF log THEN FALSE ELSE @,
                             !.markerBorn =
                                 IF TouchOpens(p) /\ Created(MarkerPath)
                                 THEN <<now>> ELSE @])
    /\ UNCHANGED <<envVars, dirExists, nextPid, clock>>

\* ------------------------------------ send_metrics_files (collector.rs)
\* read_dir(tmp_dir): the entries the for loop will handle are those whose
\* name starts with "metrics"
ReadDir(p) ==
    /\ Pc(p) = "drain"
    /\ IF DirExists(tmpDir)
       THEN /\ col' = [col EXCEPT ![p].listing =
                          {n \in Names : /\ files[<<tmpDir, n>>] # 0
                                         /\ StartsWith(n, METRICS_PREFIX)}]
            /\ proc' = Goto(p, "drain", "dr_next")
            /\ UNCHANGED flock
       ELSE Die(p, PanicTerm)
    /\ UNCHANGED <<envVars, dirExists, files, nextPid, clock>>
    /\ Settle(mtime, hist)

\* The for loop takes the next entry, in no defined order, and opens it:
\* OpenOptions::new().read(true).open(filename), the bare file name
OpenEntry(p) ==
    /\ Pc(p) = "dr_next"
    /\ \E n \in col[p].listing :
          LET i == FileAt(Resolve(p, n)) IN
          IF i # 0
          THEN /\ col' = [col EXCEPT ![p].listing = @ \ {n}, ![p].entry = n,
                                     ![p].file = i]
               /\ proc' = Goto(p, "dr_next", "dr_lock")
               /\ UNCHANGED flock
          ELSE Die(p, PanicTerm)
    /\ UNCHANGED <<envVars, dirExists, files, nextPid, clock>>
    /\ Settle(mtime, hist)

\* Flock::lock(file, LockExclusiveNonblock): a locked file is skipped
LockEntry(p) ==
    /\ Pc(p) = "dr_lock"
    /\ \E r \in {FlockExclusiveNonblock(col[p].file, p), "error"} :
          CASE r = "ok" ->
                 /\ flock' = [flock EXCEPT ![col[p].file] = p]
                 /\ proc' = Goto(p, "dr_lock", "dr_read")
                 /\ UNCHANGED col
            [] r = "wouldblock" ->
                 /\ col' = [col EXCEPT ![p].file = 0, ![p].entry = <<>>]
                 /\ proc' = Goto(p, "dr_lock", "dr_next")
                 /\ UNCHANGED flock
            [] OTHER -> Die(p, ExitTerm(1))
    /\ UNCHANGED <<envVars, dirExists, files, nextPid, clock>>
    /\ Settle(mtime, hist)

\* read_to_string: the content that goes to the metrics server
ReadEntry(p) ==
    /\ Pc(p) = "dr_read"
    /\ proc' = Goto(p, "dr_read", "dr_remove")
    /\ UNCHANGED <<envVars, dirExists, nextPid, clock, flock, col, files>>
    /\ Settle(mtime, [hist EXCEPT !.reads[col[p].file] = @ \cup {p}])

\* remove_file(filename): the bare file name again
RemoveEntry(p) ==
    /\ Pc(p) = "dr_remove"
    /\ LET path == Resolve(p, col[p].entry) IN
       IF FileAt(path) # 0
       THEN /\ files' = [files EXCEPT ![path] = 0]
            /\ proc' = Goto(p, "dr_remove", "dr_unlock")
            /\ UNCHANGED <<flock, col>>
       ELSE /\ Die(p, PanicTerm)
            /\ UNCHANGED files
    /\ UNCHANGED <<envVars, dirExists, nextPid, clock>>
    /\ Settle(mtime, hist)

\* locked_file goes out of scope: the lock is released, the file closed
UnlockEntry(p) ==
    /\ Pc(p) = "dr_unlock"
    /\ flock' = [flock EXCEPT ![col[p].file] = 0]
    /\ col' = [col EXCEPT ![p].file = 0, ![p].entry = <<>>]
    /\ proc' = Goto(p, "dr_unlock", "dr_next")
    /\ UNCHANGED <<envVars, dirExists, files, nextPid, clock>>
    /\ Settle(mtime, hist)

\* The pass is over: sleep(SLEEP_INTERVAL), then the next iteration
Sleep(p) ==
    /\ Pc(p) = "dr_next"
    /\ col[p].listing = {}
    /\ proc' = Goto(p, "dr_next", "loop")
    /\ UNCHANGED <<envVars, fsVars, nextPid, clock, col, hist>>

\* ------------------------------------------------------- environment
\* A metrics writer creates a spool file and holds it under an exclusive lock
WriterCreate ==
    /\ files[SpoolPath] = 0
    /\ FreeInodes # {}
    /\ files' = [files EXCEPT ![SpoolPath] = NewInode]
    /\ flock' = [flock EXCEPT ![NewInode] = WriterPid]
    /\ mtime' = [mtime EXCEPT ![NewInode] = clock]
    /\ UNCHANGED <<envVars, dirExists, proc, nextPid, clock, col, hist>>

\* The writer is done: it unlocks and closes its file
WriterRelease ==
    /\ \E i \in Inodes :
          /\ flock[i] = WriterPid
          /\ flock' = [flock EXCEPT ![i] = 0]
    /\ UNCHANGED <<envVars, dirExists, files, proc, nextPid, clock, col>>
    /\ Settle(mtime, hist)

\* External cleanup removes the Collector's log file
DeleteLogFile ==
    /\ files[CollectorLogPath] # 0
    /\ files' = [files EXCEPT ![CollectorLogPath] = 0]
    /\ UNCHANGED <<envVars, dirExists, flock, proc, nextPid, clock, col>>
    /\ Settle(mtime, [hist EXCEPT !.logRemoved = TRUE])

\* External cleanup removes the marker file
DeleteMarker ==
    /\ files[MarkerPath] # 0
    /\ files' = [files EXCEPT ![MarkerPath] = 0]
    /\ UNCHANGED <<envVars, dirExists, flock, proc, nextPid, clock, col>>
    /\ Settle(mtime, [hist EXCEPT !.markerRemoved = TRUE, !.markerBorn = <<>>])

\* The realtime clock is set, forward or backward
SetClock ==
    /\ \E t \in Times \ {clock} :
          /\ clock' = t
          /\ hist' = [hist EXCEPT !.clockBack = @ \/ t < clock]
    /\ UNCHANGED <<envVars, fsVars, proc, nextPid, col>>

\* A Collector is killed, or has ended, and the next instance reaches its
\* loop: the in-memory fields are lost, the files stay
Restart(p) ==
    /\ proc[p].module = "Collector"
    /\ proc[p].st \in {"live", "dead"}
    /\ flock' = Unlocked(p)
    /\ col' = [col EXCEPT ![p] = NoCol]
    /\ proc' = [proc EXCEPT ![p] = [@ EXCEPT !.st = "live", !.k = <<"loop">>,
                                             !.term = NoTerm, !.tr = <<>>]]
    /\ UNCHANGED <<envVars, dirExists, files, nextPid, clock>>
    /\ Settle(mtime, [hist EXCEPT !.restarted = hist.lastSample # <<>>])

\* ------------------------------------------ specification: Collectors
CollectorPids == (InitPid + 1)..(InitPid + NumCollectors)

\* A daemonised Collector about to enter its loop
CollectorProc ==
    [NoProc EXCEPT !.st = "live", !.k = <<"loop">>, !.ppid = InitPid,
                   !.module = "Collector", !.cwd = "root"]

\* Collectors at the top of their loops: setup_stdio has made the log file
\* (inode 1); the marker, when there is one, is inode 2 and an interval old
InitLoops(pids, marker) ==
    /\ optOut = FALSE
    /\ entry = "start"
    /\ dirExists = [d \in {"log", "tmp"} |-> TRUE]
    /\ flock = [i \in Inodes |-> 0]
    /\ mtime = [i \in Inodes |-> 0]
    /\ files = [path \in Paths |->
                  IF path = CollectorLogPath THEN 1
                  ELSE IF marker /\ path = MarkerPath THEN 1 + 1
                  ELSE 0]
    /\ col = [p \in Pids |-> NoCol]
    /\ hist = InitHist
    /\ nextPid = MaxPid + 1
    /\ proc = [p \in Pids |->
                 IF p = InitPid THEN HostProc(0, InitPid)
                 ELSE IF p \in pids THEN CollectorProc
                 ELSE NoProc]

\* NumCollectors Collectors started on one host, the log file in place
InitCollector ==
    /\ clock = LOG_INTERVAL
    /\ tmpDir \in {"root", "tmp"}
    /\ InitLoops(CollectorPids, TRUE)

LoopStep(p) ==
    \/ EnforceDiscard(p)
    \/ EnforceOpen(p)
    \/ EnforceLock(p)
    \/ Collect(p)
    \/ ReadDir(p)
    \/ Sleep(p)

DrainStep(p) ==
    \/ OpenEntry(p)
    \/ LockEntry(p)
    \/ ReadEntry(p)
    \/ RemoveEntry(p)
    \/ UnlockEntry(p)

NextCollector ==
    \/ \E p \in Pids : LoopStep(p) \/ DrainStep(p)
    \/ WriterCreate
    \/ WriterRelease
    \/ DeleteLogFile

SpecCollector == InitCollector /\ [][NextCollector]_vars

\* ------------------------------------------ specification: singleton
\* NumCollectors Collectors race for the singleton lock on a host where no
\* metrics writer runs: the spool stays empty, every drain pass ends at once
InitSingleton ==
    /\ clock = LOG_INTERVAL
    /\ tmpDir = "tmp"
    /\ InitLoops(CollectorPids, TRUE)

NextSingleton ==
    \/ \E p \in Pids : LoopStep(p)
    \/ DeleteLogFile

SpecSingleton == InitSingleton /\ [][NextSingleton]_vars

\* ------------------------------------------ specification: rate limiter
\* One Collector at a time, the clock and the marker at the environment's will
InitRate ==
    /\ clock \in Times
    /\ tmpDir = "tmp"
    /\ \E marker \in BOOLEAN : InitLoops({InitPid + 1}, marker)

NextRate ==
    \/ \E p \in Pids : LoopStep(p) \/ Restart(p)
    \/ SetClock
    \/ DeleteMarker

SpecRate == InitRate /\ [][NextRate]_vars

\* ------------------------------------------------ properties: entrypoints
Range(seq) == {seq[i] : i \in DOMAIN seq}
Returned == {p \in Pids : proc[p].returned}
NoPanic == \A p \in Pids : proc[p].term.kind # "panic"
FirstFreePid == IF entry = "lib_parent" THEN BinPid + 1 ELSE BinPid

\* Every process is out of the crate's code, or in one of its endless loops
Settled == \A p \in Pids : Pc(p) \in {"none", "loop"}

\* C2: with opt-out unset, the library entrypoint supervise_child_process
\* returns to its caller in exactly one process and never ends the host's flow
\* of control: once every process has settled, one process has returned.
C2_ReturnsInOneProcess ==
    (entry = "lib_child" /\ ~optOut /\ NoPanic /\ Settled)
        => Cardinality(Returned) = 1

\* C3: with opt-out set, no entrypoint creates a process.
C3_OptOutNoFork ==
    optOut => nextPid = FirstFreePid

\* C4: with opt-out set, no entrypoint creates or modifies a directory or file.
C4_OptOutNoWrite ==
    optOut => hist.writes = {}

\* C9: in child-supervision mode the captured outcome is the exit status of a
\* child that exited and the signal number of a child that was killed, these
\* being how the tracked child ended; any other wait result ends the
\* Supervisor with exit code 1 and no resource usage sampled.
C9_OutcomeIsWaitResult ==
    \A p \in Pids :
        LET w == proc[p].wstatus IN
        /\ w.kind \in {"exit", "signal"} =>
              /\ proc[p].outcome = <<w.val>>
              /\ proc[proc[p].tracked].term = w
        /\ w.kind = "other" =>
              /\ proc[p].term = ExitTerm(1)
              /\ proc[p].outcome = <<>>
        /\ proc[p].rusage => w.kind \in {"exit", "signal"}
        /\ proc[p].outcome # <<>> => w.kind \in {"exit", "signal"}

C9_Witness ==
    \E p \in Pids :
        /\ proc[p].wstatus = SignalTerm(9)
        /\ proc[p].outcome = <<9>>
        /\ proc[p].rusage
        /\ proc[p].term = ExitTerm(0)

\* C10: in parent-supervision mode, once the tracked pid no longer exists at
\* most one sleep of the poll loop begins, and the loop ends by exit(0).
C10_ExitWithinOnePoll ==
    /\ hist.lateSleeps <= 1
    /\ \A p \in Pids :
          (proc[p].st = "dead" /\ "sysinfo_new" \in Range(proc[p].tr))
              => proc[p].term = ExitTerm(0)
    /\ \A p \in Pids :
          (Pc(p) = "poll" /\ ~Alive(proc[p].tracked)) => proc[p].sleeps <= 1

C10_Witness ==
    /\ hist.polledGone
    /\ \E p \in Pids :
          /\ "sysinfo_new" \in Range(proc[p].tr)
          /\ proc[p].term = ExitTerm(0)
          /\ proc[p].tracked = HostPid
          /\ proc[HostPid].st = "dead"

\* ------------------------------------------------- properties: Collectors
\* The part of an iteration after enforce_singleton has returned
WorkLabels == {"collect", "drain", "dr_next", "dr_lock", "dr_read", "dr_remove", "dr_unlock"}
InWork(p) == Pc(p) \in WorkLabels
Working == {p \in Pids : InWork(p)}

\* C1: as long as the Collector's log file has not been removed or replaced,
\* at most one Collector is past enforce_singleton, in collect or in
\* send_metrics_files, at any instant.
C1_SingletonMutex ==
    ~hist.logRemoved => Cardinality(Working) <= 1

C1_Witness ==
    /\ ~hist.logRemoved
    /\ \E p, q \in CollectorPids :
          /\ Pc(p) = "drain"
          /\ col[p].logfile_lock # 0
          /\ flock[col[p].logfile_lock] = p
          /\ proc[q].st = "dead"
          /\ proc[q].term = ExitTerm(0)

\* C5: whatever the interleaving of concurrent drain passes, the content of a
\* spool entry is read for hand-off by at most one pass.
C5_ReadAtMostOnce ==
    \A i \in Inodes : Cardinality(hist.reads[i]) <= 1

\* The writer holds the spool entry under its exclusive lock
WriterHolds(i) == files[SpoolPath] = i /\ flock[i] = WriterPid

\* C6: while a writer holds a spool entry with the metrics prefix under an
\* exclusive lock, no step of a drain pass reads it or deletes it; the pass
\* that comes to the entry opens it without error, and when its lock attempt
\* meets the writer's lock it goes on to the next entry.
C6_LockedEntrySkipped ==
    [][\A i \in Inodes : WriterHolds(i) =>
          /\ hist'.reads[i] = hist.reads[i]
          /\ flock'[i] = WriterPid => files'[SpoolPath] = i
          /\ \A p \in CollectorPids :
                /\ (Pc(p) = "dr_next" /\ col[p].listing # {} /\ proc'[p] # proc[p])
                      => (proc'[p].st = "live" /\ proc'[p].k = <<"dr_lock">>)
                /\ (Pc(p) = "dr_lock" /\ col[p].file = i /\ proc'[p].st = "live"
                        /\ proc'[p] # proc[p])
                      => proc'[p].k = <<"dr_next">>]_vars

\* ----------------------------------------------- properties: rate limiter
\* A step of process p is a tick of collect
CollectTick(p) ==
    /\ Pc(p) = "collect"
    /\ proc'[p].st = "live"
    /\ proc'[p].k = <<"drain">>

\* The handle that process p keeps in memory, if any, is the marker file
HandleIsMarker(p) == col[p].touch_filehandle \in {0, files[MarkerPath]}

\* The modification time of the marker file that a tick at this instant
\* sees: a missing marker is created by the tick, at the current time
MarkerMtime == IF files[MarkerPath] # 0 THEN mtime[files[MarkerPath]] ELSE clock

\* C7: a tick at time T with in-memory time L and marker mtime m takes no
\* sample if L exists and T < L + 86400; otherwise it takes a sample exactly
\* when T >= m + 86400. A sample sets the marker's mtime and the in-memory
\* time to T; a tick without sample leaves both as they were. (The marker is
\* the file at the marker's path, which the process's handle refers to.)
C7_RateLimiterDecision ==
    [][\A p \in Pids : (CollectTick(p) /\ HandleIsMarker(p)) =>
          LET L == col[p].last_logged
              T == clock
              m == MarkerMtime
              sample == hist'.sampled
              fresh == L # <<>> /\ T < L[1] + LOG_INTERVAL
          IN /\ fresh => ~sample
             /\ ~fresh => (sample <=> T >= m + LOG_INTERVAL)
             /\ sample => /\ files'[MarkerPath] # 0
                          /\ mtime'[files'[MarkerPath]] = T
                          /\ col'[p].last_logged = <<T>>
             /\ ~sample => /\ col'[p].last_logged = L
                           /\ fresh => (files' = files /\ mtime' = mtime)
                           /\ ~fresh => mtime'[files'[MarkerPath]] = m]_vars

C7_Witness ==
    /\ ~hist.markerRemoved
    /\ ~hist.clockBack
    /\ hist.sampled
    /\ clock = LOG_INTERVAL + 1
    /\ \E p \in Pids :
          /\ Pc(p) = "drain"
          /\ col[p].last_logged = <<clock>>
          /\ col[p].touch_filehandle = files[MarkerPath]
          /\ mtime[files[MarkerPath]] = clock

\* C8: the marker's modification time never moves backward: a tick that
\* samples makes it strictly greater, a tick that does not sample leaves it
\* as it was, and no other step changes the time of the marker in place.
C8_MarkerMonotonic ==
    [][/\ (files[MarkerPath] # 0 /\ files'[MarkerPath] # 0)
             => mtime'[files'[MarkerPath]] >= mtime[files[MarkerPath]]
       /\ \A p \in Pids : CollectTick(p) =>
             LET h == col'[p].touch_filehandle IN
             /\ (hist'.sampled /\ col[p].touch_filehandle # 0)
                   => mtime'[h] > mtime[h]
             /\ (hist'.sampled /\ col[p].touch_filehandle = 0 /\ files[MarkerPath] # 0)
                   => mtime'[h] > mtime[files[MarkerPath]]
             /\ (~hist'.sampled /\ files[MarkerPath] # 0)
                   => mtime'[files[MarkerPath]] = mtime[files[MarkerPath]]]_vars

C8_Witness ==
    /\ hist.clockBack
    /\ hist.sampled
    /\ \E p \in Pids :
          /\ Pc(p) = "drain"
          /\ col[p].last_logged = <<clock>>
          /\ col[p].touch_filehandle = files[MarkerPath]
          /\ mtime[files[MarkerPath]] = clock

\* ------------------------------------------ properties: parent supervision
\* C11: the Supervisor of a parent never exits while the tracked process is
\* running: a poll at which the process with the captured pid exists finds it
\* and the Supervisor goes on.
C11_NoExitWhileParentRuns ==
    [][\A p \in Pids :
          (Pc(p) = "poll" /\ Alive(proc[p].tracked)) => proc'[p].st = "live"]_vars

\* ------------------------------------------------ properties: singleton
\* C12: when the log file has been deleted, the next enforce_singleton of a
\* running Collector creates it again and, nobody else holding a lock on the
\* new file, takes the exclusive lock on it and goes on to the iteration's
\* work; it does not panic and does not exit 0. (Only a failure of flock
\* itself, the third case of C13, ends it.)
C12_LockRecreated ==
    [][\A p \in CollectorPids :
          /\ (Pc(p) = "es_open" /\ files[CollectorLogPath] = 0 /\ proc'[p] # proc[p])
                => /\ proc'[p].st = "live"
                   /\ proc'[p].k = <<"es_lock">>
                   /\ files'[CollectorLogPath] # 0
                   /\ col'[p].logfile = files'[CollectorLogPath]
          /\ (Pc(p) = "es_lock" /\ flock[col[p].logfile] = 0 /\ proc'[p] # proc[p])
                => IF proc'[p].st = "live"
                   THEN /\ proc'[p].k = <<"collect">>
                        /\ col'[p].logfile_lock = col[p].logfile
                        /\ flock'[col[p].logfile] = p
                   ELSE proc'[p].term = ExitTerm(1)]_vars

C12_Witness ==
    /\ hist.logRemoved
    /\ \E p \in CollectorPids :
          /\ Pc(p) = "collect"
          /\ col[p].last_logged # <<>>
          /\ col[p].logfile_lock = files[CollectorLogPath]
          /\ flock[col[p].logfile_lock] = p
          /\ \A q \in CollectorPids \ {p} : Pc(q) = "loop" /\ col[q] = NoCol

\* C13: the non-blocking lock attempt of enforce_singleton decides: acquired,
\* the iteration proceeds holding the lock; contended (would-block), the
\* process ends at once with exit code 0, without sampling or draining; any
\* other failure of the attempt, the process ends with exit code 1.
C13_LockDecides ==
    [][\A p \in CollectorPids :
          (Pc(p) = "es_lock" /\ proc'[p] # proc[p]) =>
             LET i == col[p].logfile
                 contended == flock[i] # 0
                 result == proc'[p].tr[Len(proc'[p].tr)]
             IN /\ contended => proc'[p].st = "dead"
                /\ proc'[p].st = "live" =>
                      /\ proc'[p].k = <<"collect">>
                      /\ flock'[i] = p
                      /\ col'[p].logfile_lock = i
                /\ proc'[p].st = "dead" =>
                      /\ result \in {"wouldblock", "error"}
                      /\ result = "wouldblock" =>
                            /\ contended
                            /\ proc'[p].term = ExitTerm(0)
                            /\ files' = files
                            /\ mtime' = mtime
                            /\ hist' = hist
                      /\ result = "error" => proc'[p].term = ExitTerm(1)]_vars

C13_Witness ==
    \E p, q \in CollectorPids :
        /\ proc[p].term = ExitTerm(0)
        /\ proc[q].term = ExitTerm(1)
        /\ col[q] = NoCol
        /\ hist.sampled
        /\ ~hist.logRemoved

\* ---------------------------------------------- properties: exit codes
\* The steps at which the code ends a process with exit(1) for a failure:
\* the misuse guards of main, an unknown wait result, a parent pid that does
\* not fit, a lock attempt that failed otherwise than by contention
FatalLabels == {"main", "waitpid", "getppid", "error"}

\* C14: exit code 1 comes of fatal failures only: a process that ends for an
\* intentional no-op (opt-out, lost singleton race, tracked parent ended)
\* ends with code 0, so every process that ended with code 1 ended at a step
\* that failed; in particular the parent-supervision entrypoint does not
\* end with code 1 when opt-out is set.
C14_ExitOneOnlyWhenFatal ==
    \A p \in Pids :
        proc[p].term = ExitTerm(1)
            => proc[p].tr[Len(proc[p].tr)] \in FatalLabels

\* ------------------------------------------- properties: the two loops
\* Nothing failed: no panic and no exit(1)
NoFailure == NoPanic /\ \A p \in Pids : proc[p].term # ExitTerm(1)

\* Process p has been a Supervisor at its tracking step: the wait for the
\* child, or the poll loop on the parent
Supervising(p) ==
    /\ proc[p].module = "Supervisor"
    /\ {"waitpid", "sysinfo_new"} \cap (Range(proc[p].tr) \cup {Pc(p)}) # {}

\* C15: with opt-out unset, one invocation of either public entrypoint
\* brings both loops into existence, in two processes: once every process
\* has settled and nothing failed, one process has been the Supervisor
\* tracking the monitored process and another runs the Collector's loop.
C15_BothLoopsExist ==
    (entry \in {"lib_child", "lib_parent"} /\ ~optOut /\ NoFailure /\ Settled)
        => \E s, c \in Pids :
              /\ s # c
              /\ Supervising(s)
              /\ proc[c].module = "Collector"
              /\ Pc(c) = "loop"

\* ------------------------------------------- properties: detach_process
SetupLabels == {"setup_stdio", "chdir", "close_fds", "close_failed", "umask"}

\* The place of a setup step in setup_stdio followed by setup_filesystem
SetupRank(label) ==
    CASE label = "setup_stdio" -> 1
      [] label = "chdir" -> 2
      [] label \in {"close_fds", "close_failed"} -> 3
      [] OTHER -> 4

\* The number of kill_parent forks in a trace
Kills(t) == Cardinality({j \in DOMAIN t : t[j] = "kill_parent"})

IsPrefix(s, t) == Len(s) <= Len(t) /\ SubSeq(t, 1, Len(s)) = s

\* Process q ended in kill_parent, as the fork-parent
ExitedInDetach(q) ==
    LET t == proc[q].tr
    IN /\ proc[q].st = "dead"
       /\ proc[q].term = ExitTerm(0)
       /\ Len(t) >= 2
       /\ t[Len(t)] = "exit0"
       /\ t[Len(t) - 1] = "kill_parent"

\* detach_process has returned in process p
PastDetach(p) ==
    /\ Kills(proc[p].tr) >= 1
    /\ (Pc(p) = "setup_stdio" \/ SetupLabels \cap Range(proc[p].tr) # {})

\* C16: after detach_process exactly one process goes on: the grandchild p of
\* the caller a, a member but not the leader of the session the intermediate
\* process b made between the two forks, while a and b have both ended with
\* exit code 0; the stdio redirection, chdir, descriptor closing and umask
\* are made only after the second fork, in that order, so by p alone.
C16_DetachLeavesGrandchild ==
    /\ \A p \in Pids : PastDetach(p) =>
          LET b == proc[p].origin
          IN /\ b \in Pids
             /\ proc[b].origin \in Pids
             /\ LET a == proc[b].origin
                    entered == SubSeq(proc[a].tr, 1, Len(proc[a].tr) - 2)
                IN /\ Cardinality({a, b, p}) = 3
                   /\ ExitedInDetach(a) /\ Kills(proc[a].tr) = 1
                   /\ ExitedInDetach(b) /\ Kills(proc[b].tr) = 2
                   /\ ~ExitedInDetach(p) /\ Kills(proc[p].tr) = 2
                   /\ {q \in Pids : /\ proc[q].st # "unused"
                                    /\ IsPrefix(Append(entered, "kill_parent"),
                                                proc[q].tr)} = {a, b, p}
                   /\ "setsid" \notin Range(proc[a].tr)
                   /\ proc[b].tr = Append(entered, "kill_parent")
                                      \o <<"setsid", "kill_parent", "exit0">>
                   /\ proc[b].sid = b
                   /\ proc[a].sid # b
                   /\ proc[p].sid = b
                   /\ proc[p].pgid = b
    /\ \A q \in Pids : \A j \in DOMAIN proc[q].tr :
          (Kills(proc[q].tr) >= 1 /\ proc[q].tr[j] \in SetupLabels) =>
             /\ Kills(SubSeq(proc[q].tr, 1, j - 1)) = 2
             /\ SetupRank(proc[q].tr[j]) =
                   Cardinality({i \in 1..j : proc[q].tr[i] \in SetupLabels})

\* Both detaching bodies have gone through: a Collector and a Supervisor
\* are past umask, each the grandchild of an ended caller
C16_Witness ==
    \E p, q \in Pids :
        /\ PastDetach(p) /\ Alive(p) /\ proc[p].module = "Collector"
        /\ PastDetach(q) /\ proc[q].module = "Supervisor"
        /\ "umask" \in Range(proc[p].tr) \cap Range(proc[q].tr)
        /\ proc[proc[p].origin].term = ExitTerm(0)

\* C17: under any interleaving of the Collectors and of external removals of
\* the log file, no two Collectors are in collect or in send_metrics_files at
\* the same instant.
C17_MutexUnderDeletion ==
    \A p, q \in CollectorPids : (InWork(p) /\ InWork(q)) => p = q

\* C18: a drain pass of the daemonised Collector (working directory "/")
\* that comes to spool entries which exist in tmp_dir and which nobody holds
\* locked opens the entry it takes, the file of that name in tmp_dir, and the
\* Collector keeps running towards the lock, the read and the removal.
C18_DrainOpensSpoolEntry ==
    [][\A p \in CollectorPids :
          (/\ Pc(p) = "dr_next"
           /\ proc[p].cwd = "root"
           /\ col[p].listing # {}
           /\ \A n \in col[p].listing :
                 /\ files[<<tmpDir, n>>] # 0
                 /\ flock[files[<<tmpDir, n>>]] = 0
           /\ proc'[p] # proc[p])
             => /\ proc'[p].st = "live"
                /\ proc'[p].k = <<"dr_lock">>
                /\ col'[p].entry \in col[p].listing
                /\ col'[p].file = files[<<tmpDir, col'[p].entry>>]]_vars

\* C19: with one Collector at a time whose restarts lose last_logged and keep
\* the files, and a clock that never went back, two consecutive system
\* samples, and so any two, are at least LOG_INTERVAL seconds apart.
C19_ThrottleAcrossRestarts ==
    (~hist.clockBack /\ hist.prevSample # <<>>)
        => hist.lastSample[1] >= hist.prevSample[1] + LOG_INTERVAL

\* Two samples with a restart of the Collector between them, the marker
\* never removed and the clock never set back
C19_Witness ==
    /\ ~hist.clockBack
    /\ ~hist.markerRemoved
    /\ hist.prevSample # <<>>
    /\ hist.acrossRestart
    /\ hist.sampled
    /\ hist.lastSample[1] = hist.prevSample[1] + LOG_INTERVAL

\* ------------------------------------------- properties: getppid capture
\* The steps that fork: follow_parent (in lib.rs and in the Supervisor) and
\* kill_parent
ForkLabels == {"lp_fork", "sc_fork", "kill_parent"}

\* C20: on the parent-supervision path no fork, neither follow_parent nor a
\* fork of detach_process, comes before the getppid capture in the history of
\* the process that makes it.
C20_CaptureBeforeAnyFork ==
    \A p \in Pids : \A j \in DOMAIN proc[p].tr :
        proc[p].tr[j] = "getppid" =>
            \A i \in 1..(j - 1) : proc[p].tr[i] \notin ForkLabels

\* ------------------------------------------- properties: setup failures
\* The process-management steps of the daemon setup: the forks, setsid,
\* chdir, and the closing of the inherited descriptors
ProcessSteps == ForkLabels \cup {"setsid", "chdir", "close_fds"}

\* Process p ended in a step of `steps`, which failed
FailedIn(p, steps) ==
    /\ proc[p].st = "dead"
    /\ proc[p].tr # <<>>
    /\ proc[p].tr[Len(proc[p].tr)] \in steps

\* C21: a process in which a fork, setsid, chdir or the closing of an
\* inherited descriptor failed has ended with exit code 1, at that step: a
\* failed close is the last step of its process.
C21_SetupFailureExitsOne ==
    \A p \in Pids :
        /\ FailedIn(p, ProcessSteps) => proc[p].term = ExitTerm(1)
        /\ "close_failed" \in Range(proc[p].tr)
              => (FailedIn(p, {"close_failed"}) /\ proc[p].term = ExitTerm(1))

\* C22: in a Collector whose handle is the marker file, the in-memory time,
\* once set, is the marker's modification time, and every tick at time T
\* decides as the marker alone would: it samples exactly when
\* T >= mtime + 86400.
C22_MemoryTierAgrees ==
    [][\A p \in Pids : HandleIsMarker(p) =>
          /\ col[p].last_logged # <<>> =>
                /\ col[p].touch_filehandle # 0
                /\ mtime[col[p].touch_filehandle] = col[p].last_logged[1]
          /\ CollectTick(p) =>
                (hist'.sampled <=> clock >= MarkerMtime + LOG_INTERVAL)]_vars

\* One process has taken two samples: the second tick was decided with the
\* in-memory time set, a full interval after the first
C22_Witness ==
    /\ hist.sampled
    /\ hist.prevSample # <<>>
    /\ ~hist.acrossRestart
    /\ ~hist.markerRemoved
    /\ ~hist.clockBack
    /\ \E p \in Pids :
          /\ Pc(p) = "drain"
          /\ col[p].last_logged = hist.lastSample
          /\ mtime[files[MarkerPath]] = hist.lastSample[1]

\* ------------------------------------------- properties: singleton progress
\* C23: the Collectors racing on the log file never all exit: as long as
\* every Collector that has ended did so by losing the lock (exit code 0, no
\* fatal error), at least one Collector is alive in its loop.
C23_NeverAllExit ==
    (\A p \in CollectorPids : proc[p].st = "dead" => proc[p].term = ExitTerm(0))
        => \E p \in CollectorPids : Alive(p)

\* The Collector that held the lock first and sampled has lost it in the
\* window after its discard and has exited with code 0; its rival is past
\* enforce_singleton and goes on
C23_Witness ==
    /\ ~hist.logRemoved
    /\ hist.lastSample # <<>>
    /\ \E p, q \in CollectorPids :
          /\ proc[p].term = ExitTerm(0)
          /\ Pc(q) = "drain"
          /\ col[q].last_logged = <<>>
          /\ flock[col[q].logfile_lock] = q

\* ------------------------------------------- properties: fresh marker
\* The step is made by process p itself at `label`, not by a restart of p
OwnStep(p, label) ==
    /\ Pc(p) = label
    /\ proc'[p] # proc[p]
    /\ ~(proc'[p].st = "live" /\ proc'[p].k = <<"loop">>)

\* C24: the first tick of a Collector that finds no marker file creates it
\* with the current time as modification time and takes no sample; and a tick
\* that samples on a marker created by a tick comes at least LOG_INTERVAL
\* seconds after that creation.
C24_FreshMarkerWaits ==
    [][\A p \in Pids :
          /\ (/\ OwnStep(p, "collect")
              /\ col[p].last_logged = <<>>
              /\ col[p].touch_filehandle = 0
              /\ files[MarkerPath] = 0)
                => /\ proc'[p].st = "live"
                   /\ files'[MarkerPath] # 0
                   /\ col'[p].touch_filehandle = files'[MarkerPath]
                   /\ mtime'[files'[MarkerPath]] = clock
                   /\ ~hist'.sampled
                   /\ col'[p].last_logged = <<>>
                   /\ hist'.lastSample = hist.lastSample
          /\ (/\ CollectTick(p)
              /\ HandleIsMarker(p)
              /\ hist.markerBorn # <<>>
              /\ hist'.sampled)
                => clock >= hist.markerBorn[1] + LOG_INTERVAL]_vars

\* A Collector has sampled on the marker that its own first tick created,
\* exactly one interval after the creation
C24_Witness ==
    /\ hist.sampled
    /\ hist.markerBorn # <<>>
    /\ hist.prevSample = <<>>
    /\ hist.lastSample = <<hist.markerBorn[1] + LOG_INTERVAL>>
    /\ \E p \in Pids : Pc(p) = "drain" /\ col[p].touch_filehandle = files[MarkerPath]

\* ------------------------------------------- properties: the polled pid
\* C25: when the host has launched the forc-telemetry binary, the pid that
\* a Supervisor polls in its loop is the pid of that host process, whatever
\* forks came before.
C25_PolledPidIsHost ==
    entry = "lib_parent" =>
        \A p \in Pids :
            "sysinfo_new" \in Range(proc[p].tr) => proc[p].tracked = HostPid

====
